---- MODULE Spec2Model ----
(***************************************************************************)
(* Discrete-event model of the DAMFC disassembly job-shop simulation:      *)
(* pre-shop pool, LUMS COR order release (periodic + continuous),          *)
(* workstation processing loops and the corrected-load accounting.         *)
(*                                                                         *)
(* Time is an integer number of time units.  Loads are kept exactly, as    *)
(* integers in units of 1/LoadScale time units, so process_time/depth is   *)
(* exact for every depth that divides LoadScale.                           *)
(*                                                                         *)
(* The SimPy event heap is the sequence evq: every entry is a NORMAL       *)
(* priority event, kept in (time, insertion order).  One step of the model *)
(* pops the head of evq and runs the coroutine it resumes up to its next   *)
(* yield, exactly as Environment.step does.                                *)
(***************************************************************************)
EXTENDS Integers, Sequences, FiniteSets, TLC

\* ------------------------------------------------------------------ bounds
NumOrders == 3      \* orders in the order stream
MaxGap == 1         \* largest inter-arrival time of the stream
Until == 9          \* env.run(until=...)
MaxEvents == 40     \* events scheduled in a run with direct calls

\* ------------------------------------------------------- program constants
LoadScale == 60     \* loads are stored as LoadScale * load
PstScale == 10      \* planned start times are stored as PstScale * pst
PLANNED_START_TIME_ALLOWANCE == 2   \* 0.2, in units of 1/PstScale

STATION_TYPES == <<"A", "B", "C", "D", "E">>

\* ------------------------------------------------------------------- plans
\* A plan is the flat_plan of an order (pre-order).  A task names its parent
\* (0 for a root) and its next_steps by their index in the flat plan, and
\* carries its structural depth.
Task(name, pt, st, parent, depth, next) ==
    [task_name |-> name, process_time |-> pt, station |-> st,
     parent |-> parent, depth |-> depth, next_steps |-> next]

Plans ==
    << \* 1: a single task on A
       << Task("T1", 2, "A", 0, 1, << >>) >>,
       \* 2: chain B -> A -> C
       << Task("T2", 2, "B", 0, 1, <<2>>), Task("T1", 3, "A", 1, 2, <<3>>),
          Task("T3", 2, "C", 2, 3, << >>) >>,
       \* 3: tree A -> (B, C)
       << Task("T1", 1, "A", 0, 1, <<2, 3>>), Task("T2", 2, "B", 1, 2, << >>),
          Task("T3", 1, "C", 1, 2, << >>) >>,
       \* 4: forest with two roots, B and A -> B
       << Task("T2", 1, "B", 0, 1, << >>), Task("T1", 1, "A", 0, 1, <<3>>),
          Task("T3", 2, "B", 2, 2, << >>) >>,
       \* 5: a single task on B
       << Task("T2", 1, "B", 0, 1, << >>) >> >>

VARIABLES
    cfg,        \* configuration of the run (station instances, norm, rules)
    orders,     \* the order stream, by arrival_time ascending
    now,        \* env.now
    evq,        \* the event heap
    eid,        \* Environment._eid: the number of the last scheduled event
    pool,       \* PreShopPool.order_list (order indices)
    depth,      \* depth[o][k]: Task.depth
    assigned,   \* assigned[o][k]: Task.assigned_station (0 = None)
    pst,        \* pst[o][k]: Task.planned_start_time (scaled; no entry = None)
    completed,  \* completed[o]: Order.completed_tasks
    ready,      \* ready[o]: Order.ready_tasks
    finish,     \* finish[o]: Order.finish_time
    contrib,    \* contrib[o][s][k]: Order.load_contributions[s][k].load
    queue,      \* queue[s]: Workstation.ws_tasks_queue
    indirect,   \* indirect[s]: Workstation.indirect_load (scaled)
    idle,       \* idle[s]: Workstation.idle
    triggered,  \* triggered[s]: Workstation.idle_event.triggered
    pc,         \* pc[s]: where the station's coroutine is suspended
    cur,        \* cur[s]: the (order, task) process_task was started with
    clock,      \* clock[s]: last_idle_start, last_work_start, totals
    failed,     \* the exception that ended the run ("none" while running)
    hist        \* observations of the last step and release counters

vars == <<cfg, orders, now, evq, eid, pool, depth, assigned, pst, completed, ready,
          finish, contrib, queue, indirect, idle, triggered, pc, cur, clock,
          failed, hist>>

\* ---------------------------------------------------------- static helpers
Plan(o) == orders[o].flat_plan
NT(o) == Len(Plan(o))
Tasks(o) == 1..NT(o)
Orders == 1..Len(orders)

\* Task.next_steps
Children(o, k) == Plan(o)[k].next_steps

\* MainSimulation.create_stations_and_warehouses: one station per type and
\* instance, types in STATION_TYPES order
RECURSIVE StationsFrom(_, _)
StationsFrom(inst, t) ==
    IF t > Len(STATION_TYPES) THEN << >>
    ELSE [i \in 1..inst[STATION_TYPES[t]] |->
             [type_id |-> STATION_TYPES[t], instance_id |-> i]]
         \o StationsFrom(inst, t + 1)

station_list == cfg.station_list
Stations == 1..Len(station_list)

\* Workstation.id = f"{type_id}-{instance_id}"
StationId(s) == <<station_list[s].type_id, "-", station_list[s].instance_id>>
\* str.startswith for the one-character station types of STATION_TYPES
StartsWith(id, prefix) == id[1] = prefix

RECURSIVE SumSeq(_)
SumSeq(q) == IF q = << >> THEN 0 ELSE Head(q) + SumSeq(Tail(q))

RECURSIVE SumOver(_, _)
SumOver(f, D) ==
    IF D = {} THEN 0
    ELSE LET x == CHOOSE y \in D : TRUE IN f[x] + SumOver(f, D \ {x})

IndexOf(q, x) == CHOOSE i \in 1..Len(q) : q[i] = x /\ \A j \in 1..(i-1) : q[j] # x
\* list.remove(x): the first occurrence
RemoveFirst(q, x) ==
    LET i == IndexOf(q, x) IN SubSeq(q, 1, i - 1) \o SubSeq(q, i + 1, Len(q))
InSeq(q, x) == \E i \in 1..Len(q) : q[i] = x

\* ------------------------------------------------------------ the world
\* The handlers below are functions from world to world; a world holds the
\* mutable state of the run.
World ==
    [now |-> now, evq |-> evq, eid |-> eid, pool |-> pool, depth |-> depth,
     assigned |-> assigned, pst |-> pst, completed |-> completed,
     ready |-> ready, finish |-> finish, contrib |-> contrib,
     queue |-> queue, indirect |-> indirect, idle |-> idle,
     triggered |-> triggered, pc |-> pc, cur |-> cur, clock |-> clock,
     failed |-> failed, hist |-> hist]

\* sequencing of the statements of a handler: G applied to the world (or
\* value) v that the statements before it produced
Then(v, G(_)) == G(v)

Fail(W, what) == IF W.failed = "none" THEN [W EXCEPT !.failed = what] ELSE W

\* a schedule that puts the event in front of the events of its time
Schedule_in_front(W, t, kind, arg) ==
    LET n == Cardinality({i \in 1..Len(W.evq) : W.evq[i].time < t})
        e == [time |-> t, kind |-> kind, arg |-> arg, eid |-> W.eid + 1]
    IN [W EXCEPT !.evq = SubSeq(@, 1, n) \o <<e>> \o SubSeq(@, n + 1, Len(@)),
                 !.eid = @ + 1]

\* Environment.schedule with NORMAL priority: the heap is ordered by
\* (time, priority, eid), so the event goes behind every event whose time is
\* not later
Schedule(W, t, kind, arg) ==
    LET n == Cardinality({i \in 1..Len(W.evq) : W.evq[i].time <= t})
        e == [time |-> t, kind |-> kind, arg |-> arg, eid |-> W.eid + 1]
    IN [W EXCEPT !.evq = SubSeq(@, 1, n) \o <<e>> \o SubSeq(@, n + 1, Len(@)),
                 !.eid = @ + 1]

\* ------------------------------------------------------------ Task / loads
\* a load that is not corrected by the depth
calculate_load_uncorrected(W, o, k) == Plan(o)[k].process_time * LoadScale

\* Task.calculate_load (scaled by LoadScale)
calculate_load(W, o, k) == (Plan(o)[k].process_time * LoadScale) \div W.depth[o][k]

\* Workstation.direct_load / current_load (scaled by LoadScale)
direct_load(W, s) ==
    SumSeq([i \in 1..Len(W.queue[s]) |->
              Plan(W.queue[s][i][1])[W.queue[s][i][2]].process_time * LoadScale])
current_load(W, s) == direct_load(W, s) + W.indirect[s]

\* Order.total_process_time
total_process_time(o) == SumSeq([k \in 1..NT(o) |-> Plan(o)[k].process_time])

\* a log whose entries carry the time of the start of the run
Log_at_start(W, type, s, o, k) ==
    [W EXCEPT !.hist.log = Append(@, [type |-> type, s |-> s, o |-> o, k |-> k,
                                      time |-> 0])]

\* log_manager.log_event: the events of the current step, in order
Log(W, type, s, o, k) ==
    [W EXCEPT !.hist.log = Append(@, [type |-> type, s |-> s, o |-> o, k |-> k,
                                      time |-> W.now])]

\* ------------------------------------------------------------- sort_orders
\* key(a) < key(b) for the pool sequencing rule; CR compares
\* (due_date - now) / total_process_time by cross multiplication
PoolKeyLess(W, a, b) ==
    LET A == orders[a]
        B == orders[b]
        ka == CASE cfg.pool_sequencing_rule = "FCFS" -> A.arrival_time
                [] cfg.pool_sequencing_rule = "EDD" -> A.due_date
                [] OTHER -> (A.due_date - W.now) * total_process_time(b)
        kb == CASE cfg.pool_sequencing_rule = "FCFS" -> B.arrival_time
                [] cfg.pool_sequencing_rule = "EDD" -> B.due_date
                [] OTHER -> (B.due_date - W.now) * total_process_time(a)
    IN A.priority < B.priority \/ (A.priority = B.priority /\ ka < kb)

\* list.sort is stable: x goes behind every element whose key is not larger
RECURSIVE PoolInsert(_, _, _)
PoolInsert(W, sorted, x) ==
    IF sorted = << >> THEN <<x>>
    ELSE IF PoolKeyLess(W, x, Head(sorted)) THEN <<x>> \o sorted
    ELSE <<Head(sorted)>> \o PoolInsert(W, Tail(sorted), x)

RECURSIVE PoolSorted(_, _, _)
PoolSorted(W, sorted, rest) ==
    IF rest = << >> THEN sorted
    ELSE PoolSorted(W, PoolInsert(W, sorted, Head(rest)), Tail(rest))

\* a pool that is examined in the order of arrival
sort_orders_unsorted(W) == W

sort_orders(W) ==
    IF Len(W.pool) = 0 THEN W
    ELSE IF cfg.pool_sequencing_rule \in {"FCFS", "EDD", "CR"}
    THEN [W EXCEPT !.pool = PoolSorted(W, << >>, W.pool)]
    ELSE Log(W, "error", 0, 0, 0)

\* -------------------------------------------------------------- sort_tasks
\* a station that leaves its queue in the order of arrival
sort_tasks_unsorted(W, s) == W

QueueKeyLess(W, a, b) ==
    LET pa == orders[a[1]].priority
        pb == orders[b[1]].priority
    IN CASE cfg.dispatching_rule = "FCFS" -> pa < pb
         [] cfg.dispatching_rule = "SPT" ->
              pa < pb \/ (pa = pb /\ Plan(a[1])[a[2]].process_time
                                       < Plan(b[1])[b[2]].process_time)
         [] OTHER ->
              pa < pb \/ (pa = pb /\ W.pst[a[1]][a[2]] < W.pst[b[1]][b[2]])

RECURSIVE QueueInsert(_, _, _)
QueueInsert(W, sorted, x) ==
    IF sorted = << >> THEN <<x>>
    ELSE IF QueueKeyLess(W, x, Head(sorted)) THEN <<x>> \o sorted
    ELSE <<Head(sorted)>> \o QueueInsert(W, Tail(sorted), x)

RECURSIVE QueueSorted(_, _, _)
QueueSorted(W, sorted, rest) ==
    IF rest = << >> THEN sorted
    ELSE QueueSorted(W, QueueInsert(W, sorted, Head(rest)), Tail(rest))

sort_tasks(W, s) ==
    IF cfg.dispatching_rule \in {"FCFS", "SPT", "PST"}
    THEN [W EXCEPT !.queue[s] = QueueSorted(W, << >>, @)]
    ELSE Log(W, "error", s, 0, 0)

\* ------------------------------------------------------------------ routing
\* a choice that takes the first of the suitable stations
select_station_first(W, workstations) == workstations[1]

\* min(workstations, key=current_load): the first station of least load
select_station(W, workstations) ==
    LET i == CHOOSE i \in 1..Len(workstations) :
                 /\ \A j \in 1..Len(workstations) :
                        current_load(W, workstations[i]) <= current_load(W, workstations[j])
                 /\ \A j \in 1..(i-1) :
                        current_load(W, workstations[j]) > current_load(W, workstations[i])
    IN workstations[i]

\* Order.compute_load_contributions: writes the entry of every task of
\* positive depth under its assigned station; no entry is ever deleted
compute_load_contributions(W, o) ==
    [W EXCEPT !.contrib[o] =
        [s \in Stations |->
            LET mine == {k \in Tasks(o) : W.depth[o][k] > 0 /\ W.assigned[o][k] = s}
            IN [k \in (DOMAIN @[s]) \cup mine |->
                   IF k \in mine THEN calculate_load(W, o, k) ELSE @[s][k]]]]

\* a routing that gives the triggering station every task of the order
RouteOfAllToTriggered(W, o, k, triggered_station) ==
    LET st_type_id == Plan(o)[k].station IN
    IF triggered_station # 0
    THEN triggered_station
    ELSE select_station(W, SelectSeq([s \in Stations |-> s],
                               LAMBDA s : StartsWith(StationId(s), st_type_id)))

\* the station set_detailed_routing gives task k (triggered = 0: none)
RouteOf(W, o, k, triggered_station) ==
    LET st_type_id == Plan(o)[k].station IN
    IF triggered_station # 0 /\ st_type_id = station_list[triggered_station].type_id
    THEN triggered_station
    ELSE select_station(W, SelectSeq([s \in Stations |-> s],
                               LAMBDA s : StartsWith(StationId(s), st_type_id)))

set_detailed_routing(W, o, triggered_station) ==
    compute_load_contributions(
        [W EXCEPT !.assigned[o] =
            [k \in Tasks(o) |-> RouteOf(W, o, k, triggered_station)]], o)

\* ----------------------------------------------------------- admission test
\* Order.estimate_load_contribution
estimate_load_contribution(W, o, station_current_loads) ==
    [s \in Stations |->
        station_current_loads[s] + SumOver(W.contrib[o][s], DOMAIN W.contrib[o][s])]

\* an admission test that compares the loads of the shop as it is, without
\* the order's contributions
can_release_order_without_estimate(W, o) ==
    LET station_loads == [s \in Stations |-> current_load(W, s)]
        overloaded_stations ==
            SelectSeq([s \in Stations |-> s],
                      LAMBDA s : station_loads[s] > cfg.workload_norm * LoadScale)
    IN <<overloaded_stations = << >>, overloaded_stations>>

\* ORControlSystem.can_release_order: <<can_release, overloaded stations>>
can_release_order(W, o) ==
    LET station_loads == [s \in Stations |-> current_load(W, s)]
        estimated_loads == estimate_load_contribution(W, o, station_loads)
        overloaded_stations ==
            SelectSeq([s \in Stations |-> s],
                      LAMBDA s : estimated_loads[s] > cfg.workload_norm * LoadScale)
    IN <<overloaded_stations = << >>, overloaded_stations>>

\* ------------------------------------------------------ planned start time
\* a branch search that follows the first child at every level
first_branch(o, k) ==
    LET RECURSIVE Down(_)
        Down(j) == IF Children(o, j) = << >> THEN <<Plan(o)[j].process_time, 1>>
                   ELSE LET r == Down(Children(o, j)[1])
                        IN <<Plan(o)[j].process_time + r[1], 1 + r[2]>>
    IN Down(k)

\* calculate_most_time_consuming_branch: <<total time, number of tasks>> of
\* the branch of largest process time below (and including) task k;
\* max(..., key=time) keeps the first child of largest time
RECURSIVE BranchOf(_, _)
BranchOf(o, k) ==
    LET ch == Children(o, k) IN
    IF ch = << >> THEN <<Plan(o)[k].process_time, 1>>
    ELSE LET res == [i \in 1..Len(ch) |-> BranchOf(o, ch[i])]
             m == CHOOSE i \in 1..Len(ch) :
                      /\ \A j \in 1..Len(ch) : res[i][1] >= res[j][1]
                      /\ \A j \in 1..(i-1) : res[j][1] < res[i][1]
         IN <<Plan(o)[k].process_time + res[m][1], 1 + res[m][2]>>

calculate_most_time_consuming_branch(o, k) == BranchOf(o, k)

\* ORControlSystem.calculate_planned_start_time (scaled by PstScale)
calculate_planned_start_time(W, o, k) ==
    LET b == calculate_most_time_consuming_branch(o, k)
        v == PstScale * orders[o].due_date - PstScale * b[1]
             - cfg.allowance * b[2]
    IN [W EXCEPT !.pst[o] = [j \in (DOMAIN @) \cup {k} |-> IF j = k THEN v ELSE @[j]]]

\* ---------------------------------------------------- Workstation.add_task
\* an add_task that wakes nobody
AddTaskWake_silent(W, s) == W

\* an add_task that sorts the queue of a working station at once
AddTaskWake_resorting(W, s) ==
    IF ~W.idle[s] THEN sort_tasks(W, s)
    ELSE IF W.triggered[s] THEN Fail(W, "RuntimeError: already triggered")
    ELSE IF W.pc[s] = "idle_wait"
         THEN [Schedule(W, W.now, "wake", s) EXCEPT !.pc[s] = "woken"]
         ELSE W

\* idle_event.succeed() of add_task, then the fresh event.  The coroutine is
\* resumed by the event only when it is suspended on it (pc = "idle_wait").
AddTaskWake(W, s) ==
    IF ~W.idle[s] THEN W
    ELSE IF W.triggered[s] THEN Fail(W, "RuntimeError: already triggered")
    ELSE IF W.pc[s] = "idle_wait"
         THEN [Schedule(W, W.now, "wake", s) EXCEPT !.pc[s] = "woken"]
         ELSE W

add_task(W, s, o, k) ==
    IF W.failed # "none" THEN W
    ELSE IF W.depth[o][k] = 0 THEN Fail(W, "ZeroDivisionError")
    ELSE
    Then(calculate_planned_start_time(W, o, k), LAMBDA W1 :
    Then([W1 EXCEPT !.indirect[s] = @ - calculate_load(W1, o, k)], LAMBDA W2 :
    IF W2.indirect[s] < 0 THEN Fail(W2, "ValueError: indirect load <0")
    ELSE IF ~InSeq(W2.ready[o], k) THEN Fail(W2, "ValueError: list.remove")
    ELSE AddTaskWake(Log([W2 EXCEPT !.ready[o] = RemoveFirst(@, k),
                                    !.queue[s] = Append(@, <<o, k>>),
                                    !.hist.enq[o][k] = @ + 1,
                                    !.hist.added = @ + 1,
                                    !.hist.enq_no[o][k] = W2.hist.added + 1],
                         "Task Added", s, o, k), s)))

\* ------------------------------------------------------------ release_order
\* a release that books the order without adding its loads to the stations
add_load_contribution_nothing(W, o) == [W EXCEPT !.hist.loaded[o] = @ + 1]

\* Order.add_load_contribution
add_load_contribution(W, o) ==
    [W EXCEPT !.indirect =
        [s \in Stations |-> @[s] + SumOver(W.contrib[o][s], DOMAIN W.contrib[o][s])],
              !.hist.loaded[o] = @ + 1]

RECURSIVE AddTasks(_, _, _)
AddTasks(W, o, tasks) ==
    IF tasks = << >> \/ W.failed # "none" THEN W
    ELSE LET k == Head(tasks) IN
         IF W.assigned[o][k] = 0 THEN AddTasks(W, o, Tail(tasks))
         ELSE AddTasks(add_task(W, W.assigned[o][k], o, k), o, Tail(tasks))

release_order(W, o) ==
    Then(add_load_contribution(W, o), LAMBDA W1 :
    AddTasks([W1 EXCEPT !.hist.released[o] = @ + 1], o, W1.ready[o]))

\* a removal that leaves the released order in the pool
remove_order_keeps(W, o) == W

\* PreShopPool.remove_order
remove_order(W, o) ==
    IF W.failed # "none" THEN W
    ELSE IF ~InSeq(W.pool, o) THEN Fail(W, "ValueError: list.remove")
    ELSE [W EXCEPT !.pool = RemoveFirst(@, o), !.hist.removed[o] = @ + 1]

\* ------------------------------------------------------- continuous_release
\* a continuous release that takes only orders the admission test lets pass
HasReadyForUnderNorm(W, o, s) ==
    /\ \E i \in 1..Len(W.ready[o]) :
          Plan(o)[W.ready[o][i]].station = station_list[s].type_id
    /\ can_release_order(set_detailed_routing(W, o, s), o)[1]

\* the ready tasks of order o that station s can execute
HasReadyFor(W, o, s) ==
    \E i \in 1..Len(W.ready[o]) :
        Plan(o)[W.ready[o][i]].station = station_list[s].type_id

\* station.idle_event.succeed() at the end of continuous_release; own: the call
\* comes from the station's own loop, which then yields this very event
FinalSucceed(W, s, own) ==
    IF W.failed # "none" THEN W
    ELSE IF W.triggered[s] THEN Fail(W, "RuntimeError: already triggered")
    ELSE IF own
         THEN [Schedule([W EXCEPT !.triggered[s] = TRUE], W.now, "wake", s)
                  EXCEPT !.pc[s] = "woken"]
         ELSE [W EXCEPT !.triggered[s] = TRUE]

\* a search that keeps the last suitable order of the pool
SuitableOrderLast(W, s) ==
    LET cand == SelectSeq(W.pool, LAMBDA o : HasReadyFor(W, o, s))
    IN IF cand = << >> THEN 0 ELSE cand[Len(cand)]

\* the search loop of continuous_release: the first order of the pool with
\* a ready task of the station's type, 0 when there is none
SuitableOrder(W, s) ==
    LET cand == SelectSeq(W.pool, LAMBDA o : HasReadyFor(W, o, s))
    IN IF cand = << >> THEN 0 ELSE Head(cand)

continuous_release(W, s, own) ==
    IF W.failed # "none" THEN W
    ELSE
    Then(sort_orders(W), LAMBDA W1 :
    Then(SuitableOrder(W1, s), LAMBDA found :
    Then(IF found = 0 THEN W1
         ELSE FinalSucceed(
                  remove_order(
                      release_order(
                          set_detailed_routing(
                              Log(W1, "Order Released", s, found, 0), found, s),
                          found),
                      found),
                  s, own), LAMBDA W2 :
    \* what the call saw and what it left behind
    [W2 EXCEPT !.hist.cr = Append(@,
        [s |-> s, own |-> own, pool |-> W1.pool, released |-> found,
         assigned |-> IF found = 0 THEN << >> ELSE W2.assigned[found],
         before |-> [t \in Stations |->
                       [queue |-> W.queue[t], indirect |-> W.indirect[t]]],
         after |-> [t \in Stations |->
                      [queue |-> W2.queue[t], indirect |-> W2.indirect[t],
                       load |-> current_load(W2, t)]],
         pool_after |-> W2.pool, idle_after |-> W2.idle[s],
         triggered_after |-> W2.triggered[s], evq_before |-> W.evq,
         evq_after |-> W2.evq, failed |-> W2.failed])])))

\* an arrival after which no idle station is offered the pool
check_and_release_idle_stations_none(W) == W

\* check_and_release_idle_stations
RECURSIVE CheckFrom(_, _)
CheckFrom(W, s) ==
    IF s > Len(station_list) \/ W.failed # "none" THEN W
    ELSE IF W.idle[s] /\ ~W.triggered[s]
         THEN CheckFrom(continuous_release(W, s, FALSE), s + 1)
         ELSE CheckFrom(W, s + 1)

check_and_release_idle_stations(W) == CheckFrom(W, 1)

\* PreShopPool.add_order
pool_add_order(W, o) ==
    Log([W EXCEPT !.pool = Append(@, o), !.hist.pooled[o] = @ + 1],
        "Order Arrival", 0, o, 0)

\* an arrival that pools the order and leaves it to the next round
add_order_pools_only(W, o) == pool_add_order(W, o)

\* ORControlSystem.add_order
add_order(W, o) == check_and_release_idle_stations(pool_add_order(W, o))

\* --------------------------------------------------------- periodic_release
\* one order of the round: routing, admission test, release or rejection
EvaluateOrder(W, o) ==
    Then(set_detailed_routing(W, o, 0), LAMBDA W1 :
    Then(can_release_order(W1, o), LAMBDA res :
    Then(IF res[1]
         THEN remove_order(release_order(Log(W1, "Order Released", 0, o, 0), o), o)
         ELSE Log([W1 EXCEPT !.hist.rejected[o] = @ + 1],
                  "Order Release Rejected", 0, o, 0), LAMBDA W2 :
    \* what the evaluation saw and what it left behind
    [W2 EXCEPT !.hist.round = Append(@,
        [o |-> o, can_release |-> res[1], overloaded |-> res[2],
         assigned |-> W1.assigned[o],
         loads |-> [s \in Stations |-> current_load(W1, s)],
         before |-> [s \in Stations |->
                       [queue |-> W.queue[s], indirect |-> W.indirect[s]]],
         tested |-> [s \in Stations |->
                       [queue |-> W1.queue[s], indirect |-> W1.indirect[s]]],
         after |-> [s \in Stations |->
                      [queue |-> W2.queue[s], indirect |-> W2.indirect[s],
                       load |-> current_load(W2, s)]],
         pool_after |-> W2.pool, ready_before |-> W.ready[o],
         ready_after |-> W2.ready[o],
         failed |-> W2.failed])])))

RECURSIVE EvaluateAll(_, _)
EvaluateAll(W, snapshot) ==
    IF snapshot = << >> \/ W.failed # "none" THEN W
    ELSE EvaluateAll(EvaluateOrder(W, Head(snapshot)), Tail(snapshot))

\* a round that evaluates the first order of the sequence only
periodic_round_first_only(W) ==
    IF Len(W.pool) > 0
    THEN Then(sort_orders(W), LAMBDA W1 : EvaluateAll(W1, <<Head(W1.pool)>>))
    ELSE W

\* the body of one round of periodic_release, between two timeouts
periodic_round(W) ==
    IF Len(W.pool) > 0
    THEN Then(sort_orders(W), LAMBDA W1 : EvaluateAll(W1, W1.pool))
    ELSE W

\* --------------------------------------------------------------- completion
\* an order taken as finished with its first completed task
is_finished_with_any(W, o) == W.completed[o] # {}

\* Order.is_finished compares the sets of task names
is_finished(W, o) ==
    {Plan(o)[k].task_name : k \in W.completed[o]}
        = {Plan(o)[k].task_name : k \in Tasks(o)}

\* a completion that does not make the next steps ready
mark_task_as_completed_without_next(W, o, k) ==
    Then([W EXCEPT !.completed[o] = @ \cup {k}], LAMBDA W1 :
    IF is_finished(W1, o)
    THEN Log([W1 EXCEPT !.finish[o] = W1.now, !.hist.finished[o] = @ + 1],
             "Order Finished", 0, o, 0)
    ELSE W1)

\* Workstation.mark_task_as_completed
mark_task_as_completed(W, o, k) ==
    Then([W EXCEPT !.completed[o] = @ \cup {k},
                   !.ready[o] = @ \o Children(o, k)], LAMBDA W1 :
    IF is_finished(W1, o)
    THEN Log([W1 EXCEPT !.finish[o] = W1.now, !.hist.finished[o] = @ + 1],
             "Order Finished", 0, o, 0)
    ELSE W1)

\* an update that stops at the children of the completed task
RECURSIVE UpdateChilds_children_only(_, _, _)
UpdateChilds_children_only(W, o, ch) ==
    IF ch = << >> \/ W.failed # "none" THEN W
    ELSE
    Then(Head(ch), LAMBDA c :
    Then(W.assigned[o][c], LAMBDA st :
    Then([W EXCEPT !.indirect[st] = @ - calculate_load(W, o, c)], LAMBDA W1 :
    IF W1.indirect[st] < 0 THEN Fail(W1, "ValueError: negative load")
    ELSE
    Then([W1 EXCEPT !.depth[o][c] = @ - 1], LAMBDA W2 :
    IF W2.depth[o][c] = 0 THEN Fail(W2, "ZeroDivisionError")
    ELSE UpdateChilds_children_only(
             [W2 EXCEPT !.indirect[st] = @ + calculate_load(W2, o, c)],
             o, Tail(ch))))))

\* update_childs_indrect_load: the subtree below task k, in pre-order
RECURSIVE UpdateChilds(_, _, _)
UpdateChilds(W, o, ch) ==
    IF ch = << >> \/ W.failed # "none" THEN W
    ELSE
    Then(Head(ch), LAMBDA c :
    Then(W.assigned[o][c], LAMBDA st :
    Then([W EXCEPT !.indirect[st] = @ - calculate_load(W, o, c)], LAMBDA W1 :
    IF W1.indirect[st] < 0 THEN Fail(W1, "ValueError: negative load")
    ELSE
    Then([W1 EXCEPT !.depth[o][c] = @ - 1], LAMBDA W2 :
    IF W2.depth[o][c] = 0 THEN Fail(W2, "ZeroDivisionError")
    ELSE UpdateChilds(
             UpdateChilds([W2 EXCEPT !.indirect[st] = @ + calculate_load(W2, o, c)],
                          o, Children(o, c)),
             o, Tail(ch))))))

\* Order.update_load_contribution
update_load_contribution(W, o, completed_task) ==
    LET name == Plan(o)[completed_task].task_name
        task == CHOOSE t \in Tasks(o) :
                    /\ Plan(o)[t].task_name = name
                    /\ \A u \in 1..(t-1) : Plan(o)[u].task_name # name
    IN
    Then(W.assigned[o][task], LAMBDA st :
    IF st = 0 THEN Fail(W, "ValueError: no assigned station")
    ELSE
    Then(UpdateChilds(
             [W EXCEPT !.depth[o][task] = -1,
                       !.contrib[o][st] =
                           [j \in DOMAIN @ |-> IF j = completed_task THEN 0 ELSE @[j]]],
             o, Children(o, task)), LAMBDA W2 :
    IF W2.failed # "none" THEN W2 ELSE compute_load_contributions(W2, o)))

\* ORControlSystem.update_stations_loads, with what the call saw and what it
\* left behind
update_stations_loads(W, o, k) ==
    Then(update_load_contribution(W, o, k), LAMBDA W2 :
    [W2 EXCEPT !.hist.upd = Append(@,
        [o |-> o, k |-> k, assigned |-> W.assigned,
         depth_before |-> W.depth, depth_after |-> W2.depth,
         indirect_before |-> W.indirect, indirect_after |-> W2.indirect,
         contrib_after |-> W2.contrib[o], failed |-> W2.failed])])

\* a removal that leaves the completed task in the queue
remove_task_keeps_queued(W, s, o, k) ==
    IF InSeq(W.queue[s], <<o, k>>)
    THEN update_stations_loads(mark_task_as_completed(W, o, k), o, k)
    ELSE Log(W, "error", s, o, k)

\* Workstation.remove_task
remove_task(W, s, o, k) ==
    IF InSeq(W.queue[s], <<o, k>>)
    THEN update_stations_loads(
             [mark_task_as_completed(W, o, k)
                 EXCEPT !.queue[s] = RemoveFirst(@, <<o, k>>)], o, k)
    ELSE Log(W, "error", s, o, k)

\* ----------------------------------------------------------- station loops
\* one pass of the while loop of start_processing, up to its yield
LoopBody(W, s) ==
    IF Len(W.queue[s]) = 0
    THEN Then(continuous_release(
                  Log([W EXCEPT !.clock[s].last_idle_start = W.now,
                                !.idle[s] = TRUE, !.pc[s] = "running"],
                      "Idle Start", s, 0, 0), s, TRUE), LAMBDA W2 :
         IF W2.failed = "none" /\ W2.pc[s] = "running"
         THEN [W2 EXCEPT !.pc[s] = "idle_wait"]
         ELSE W2)
    ELSE Then(sort_tasks([W EXCEPT !.idle[s] = FALSE], s), LAMBDA W1 :
         Then(W1.queue[s][1], LAMBDA ot :
         Then([W1 EXCEPT !.cur[s] = ot], LAMBDA W2 :
         \* process_task: the assignment check, then resource.request()
         IF W2.assigned[ot[1]][ot[2]] # s
         THEN [Schedule(Log(W2, "error", s, ot[1], ot[2]), W2.now, "pend", s)
                 EXCEPT !.pc[s] = "proc_end"]
         ELSE [Schedule(W2, W2.now, "req", s) EXCEPT !.pc[s] = "req_wait"])))

\* start_processing resumed by its idle event
OnWake(W, s) ==
    LoopBody(Log([W EXCEPT !.clock[s].total_idle_time =
                               @ + (W.now - W.clock[s].last_idle_start),
                           !.triggered[s] = FALSE],
                 "Idle End", s, 0, 0), s)

\* process_task resumed by its resource request
OnRequest(W, s) ==
    Then(W.cur[s], LAMBDA ot :
    Schedule(Log([W EXCEPT !.clock[s].last_work_start = W.now, !.pc[s] = "busy",
                           !.hist.started[ot[1]][ot[2]] = @ + 1],
                 "Task Start", s, ot[1], ot[2]),
             W.now + Plan(ot[1])[ot[2]].process_time, "done", s))

\* process_task resumed by its timeout: completion and dispatch of the
\* tasks that became ready
OnDone(W, s) ==
    Then(W.cur[s], LAMBDA ot :
    Then(remove_task(Log([W EXCEPT !.clock[s].total_work_time =
                                       @ + Plan(ot[1])[ot[2]].process_time],
                         "Task Complete", s, ot[1], ot[2]),
                     s, ot[1], ot[2]), LAMBDA W2 :
    Then(AddTasks(W2, ot[1], W2.ready[ot[1]]), LAMBDA W3 :
    IF W3.failed # "none" THEN W3
    ELSE [Schedule(W3, W3.now, "pend", s) EXCEPT !.pc[s] = "proc_end"])))

\* start_order_generate resumed by its timeout for order i
OnArrival(W, i) ==
    Then(add_order(W, i), LAMBDA W1 :
    IF W1.failed # "none" \/ i = Len(orders) THEN W1
    ELSE Schedule(W1, W1.now + (orders[i+1].arrival_time - W1.now), "gen", i + 1))

\* periodic_release resumed by its timeout
OnTick(W) ==
    Then(periodic_round(W), LAMBDA W1 :
    IF W1.failed # "none" THEN W1
    ELSE Schedule(W1, W1.now + cfg.round_time, "tick", 0))

\* ------------------------------------------------------------ the run
\* the order streams and configurations the runs are started with
OrderKinds ==
    {[plan |-> 1, priority |-> 2, slack |-> 6],
     [plan |-> 2, priority |-> 2, slack |-> 8],
     [plan |-> 3, priority |-> 1, slack |-> 5],
     [plan |-> 4, priority |-> 2, slack |-> 7],
     [plan |-> 5, priority |-> 0, slack |-> 4]}

\* STATION_INSTANCES: the shops of the runs have stations of types A, B, C
OneEach == [t \in {"A", "B", "C", "D", "E"} |-> IF t \in {"A", "B", "C"} THEN 1 ELSE 0]
TwoOfA ==
    [t \in {"A", "B", "C", "D", "E"} |->
        IF t = "A" THEN 2 ELSE IF t \in {"B", "C"} THEN 1 ELSE 0]

\* the parameters of run_simulation; until is the simulation time
Config(inst, norm, pool_rule, rule, round_time, until) ==
    [station_list |-> StationsFrom(inst, 1), workload_norm |-> norm,
     pool_sequencing_rule |-> pool_rule, dispatching_rule |-> rule,
     round_time |-> round_time, until |-> until,
     allowance |-> PLANNED_START_TIME_ALLOWANCE]

Configs ==
    {Config(OneEach, 2, "FCFS", "FCFS", 2, Until),
     Config(TwoOfA, 3, "EDD", "SPT", 1, Until),
     Config(TwoOfA, 5, "CR", "PST", 4, Until)}

RECURSIVE ArrivalOf(_, _)
ArrivalOf(gaps, i) == IF i = 0 THEN 0 ELSE ArrivalOf(gaps, i - 1) + gaps[i]

\* the streams of NumOrders orders of the kinds K, by arrival time
StreamsOf(K) ==
    {[i \in 1..NumOrders |->
        [flat_plan |-> Plans[kinds[i].plan], priority |-> kinds[i].priority,
         arrival_time |-> ArrivalOf(gaps, i),
         due_date |-> ArrivalOf(gaps, i) + kinds[i].slack]] :
     kinds \in [1..NumOrders -> K], gaps \in [1..NumOrders -> 0..MaxGap]}

Streams == StreamsOf(OrderKinds)

ZeroPerTask == [o \in Orders |-> [k \in Tasks(o) |-> 0]]
ZeroPerOrder == [o \in Orders |-> 0]

\* Order.initialize_tasks: the tasks without a parent, in plan order
initialize_tasks(o) ==
    SelectSeq([i \in 1..NT(o) |-> i], LAMBDA i : Plan(o)[i].parent = 0)

\* The state after construction and the Initialize events of time 0: the
\* order generator and periodic_release are suspended on their first
\* timeouts, every station found its queue empty and waits on its idle event.
Start(C, S) ==
    /\ cfg \in C
    /\ orders \in S
    /\ now = 0
    /\ evq = IF orders[1].arrival_time <= cfg.round_time
             THEN <<[time |-> orders[1].arrival_time, kind |-> "gen", arg |-> 1, eid |-> 1],
                    [time |-> cfg.round_time, kind |-> "tick", arg |-> 0, eid |-> 2]>>
             ELSE <<[time |-> cfg.round_time, kind |-> "tick", arg |-> 0, eid |-> 2],
                    [time |-> orders[1].arrival_time, kind |-> "gen", arg |-> 1, eid |-> 1]>>
    /\ eid = 2
    /\ pool = << >>
    /\ depth = [o \in Orders |-> [k \in Tasks(o) |-> Plan(o)[k].depth]]
    /\ assigned = ZeroPerTask
    /\ pst = [o \in Orders |-> << >>]
    /\ completed = [o \in Orders |-> {}]
    /\ ready = [o \in Orders |-> initialize_tasks(o)]
    /\ finish = ZeroPerOrder
    /\ contrib = [o \in Orders |-> [s \in Stations |-> << >>]]
    /\ queue = [s \in Stations |-> << >>]
    /\ indirect = [s \in Stations |-> 0]
    /\ idle = [s \in Stations |-> TRUE]
    /\ triggered = [s \in Stations |-> FALSE]
    /\ pc = [s \in Stations |-> "idle_wait"]
    /\ cur = [s \in Stations |-> <<0, 0>>]
    /\ clock = [s \in Stations |-> [last_idle_start |-> 0, last_work_start |-> 0,
                                     total_idle_time |-> 0, total_work_time |-> 0]]
    /\ failed = "none"
    /\ hist = [ev |-> "init", arg |-> 0, log |-> << >>, round |-> << >>, cr |-> << >>,
               pooled |-> ZeroPerOrder, released |-> ZeroPerOrder,
               removed |-> ZeroPerOrder, loaded |-> ZeroPerOrder,
               finished |-> ZeroPerOrder, enq |-> ZeroPerTask,
               added |-> 0, enq_no |-> ZeroPerTask, rejected |-> ZeroPerOrder,
               calls |-> 0, upd |-> << >>, report |-> << >>,
               started |-> ZeroPerTask]

Init == Start(Configs, Streams)

\* a step that also takes events at and after the end of the run
CanStep_past_until(kind) ==
    /\ failed = "none"
    /\ evq # << >>
    /\ Head(evq).kind = kind

\* Environment.step: pop the first event and advance the clock to it.  The
\* stop event of run(until) is URGENT: no event of time >= until is processed.
CanStep(kind) ==
    /\ failed = "none"
    /\ evq # << >>
    /\ Head(evq).time < cfg.until
    /\ Head(evq).kind = kind

Popped ==
    [World EXCEPT !.now = Head(evq).time, !.evq = Tail(evq),
                  !.hist.ev = Head(evq).kind, !.hist.arg = Head(evq).arg,
                  !.hist.log = << >>, !.hist.round = << >>, !.hist.cr = << >>, !.hist.upd = << >>]

Commit(W) ==
    /\ now' = W.now /\ evq' = W.evq /\ eid' = W.eid /\ pool' = W.pool /\ depth' = W.depth
    /\ assigned' = W.assigned /\ pst' = W.pst /\ completed' = W.completed
    /\ ready' = W.ready /\ finish' = W.finish /\ contrib' = W.contrib
    /\ queue' = W.queue /\ indirect' = W.indirect /\ idle' = W.idle
    /\ triggered' = W.triggered /\ pc' = W.pc /\ cur' = W.cur
    /\ clock' = W.clock /\ failed' = W.failed /\ hist' = W.hist
    /\ UNCHANGED <<cfg, orders>>

Arrival == CanStep("gen") /\ Commit(OnArrival(Popped, Head(evq).arg))
Tick == CanStep("tick") /\ Commit(OnTick(Popped))
Wake == CanStep("wake") /\ Commit(OnWake(Popped, Head(evq).arg))
Request == CanStep("req") /\ Commit(OnRequest(Popped, Head(evq).arg))
Done == CanStep("done") /\ Commit(OnDone(Popped, Head(evq).arg))
ProcEnd == CanStep("pend") /\ Commit(LoopBody(Popped, Head(evq).arg))

\* a finalization that closes the running tasks only
OnEnd_busy_only(W) ==
    Log([W EXCEPT !.now = cfg.until,
                  !.hist.ev = "end", !.hist.arg = 0,
                  !.hist.log = << >>, !.hist.round = << >>, !.hist.cr = << >>, !.hist.upd = << >>,
                  !.clock = [s \in Stations |->
                      IF ~W.idle[s]
                      THEN [@[s] EXCEPT !.total_work_time =
                                @ + (cfg.until - W.clock[s].last_work_start)]
                      ELSE @[s]]],
        "Simulation End", 0, 0, 0)

\* LogManager.record_current_simulation_data: the 'Finish Time' column of
\* the order table
record_current_simulation_data(W) ==
    [o \in Orders |->
        IF W.finish[o] # 0 THEN <<"Finish Time", W.finish[o]>> ELSE <<"Not Finished">>]

\* run_simulation after env.run(until) returned: the time a station spent
\* in its current state is added to its work or idle total
OnEnd(W) ==
    Log([W EXCEPT !.now = cfg.until,
                  !.hist.report = record_current_simulation_data(W),
                  !.hist.ev = "end", !.hist.arg = 0,
                  !.hist.log = << >>, !.hist.round = << >>, !.hist.cr = << >>, !.hist.upd = << >>,
                  !.clock = [s \in Stations |->
                      IF ~W.idle[s]
                      THEN [@[s] EXCEPT !.total_work_time =
                                @ + (cfg.until - W.clock[s].last_work_start)]
                      ELSE [@[s] EXCEPT !.total_idle_time =
                                @ + (cfg.until - W.clock[s].last_idle_start)]]],
        "Simulation End", 0, 0, 0)

Finalize ==
    /\ failed = "none"
    /\ hist.ev # "end"
    /\ evq = << >> \/ Head(evq).time >= cfg.until
    /\ Commit(OnEnd(World))

Next == Arrival \/ Tick \/ Wake \/ Request \/ Done \/ ProcEnd \/ Finalize

Spec == Init /\ [][Next]_vars

\* Runs with orders that are due shortly after their arrival, in a shop that
\* admits little, under each of the three pool sequencing rules: the pool
\* holds late orders when a round begins.
LateKinds ==
    {[plan |-> 1, priority |-> 2, slack |-> 1],
     [plan |-> 3, priority |-> 2, slack |-> 1],
     [plan |-> 1, priority |-> 2, slack |-> 3],
     [plan |-> 5, priority |-> 0, slack |-> 2]}

PoolConfigs ==
    {Config(OneEach, 1, r, "FCFS", 1, Until) : r \in {"FCFS", "EDD", "CR"}}

InitPool == Start(PoolConfigs, StreamsOf(LateKinds))

SpecPool == InitPool /\ [][Next]_vars

\* Scenario S2, in time units of 0.5: one station of each type A..E, pool
\* rule FCFS, dispatching FCFS, norm 10; two orders, each a chain of five
\* tasks A, B, C, D, E of process_time 1, arriving at 0 and 0.5.  The
\* scenario leaves the round time open: 0.5, 1, 2 and 4 are run.
OneOfEach == [t \in {"A", "B", "C", "D", "E"} |-> 1]

ChainAE ==
    << Task("T1", 2, "A", 0, 1, <<2>>), Task("T2", 2, "B", 1, 2, <<3>>),
       Task("T3", 2, "C", 2, 3, <<4>>), Task("T4", 2, "D", 3, 4, <<5>>),
       Task("T5", 2, "E", 4, 5, << >>) >>

S2Orders ==
    << [flat_plan |-> ChainAE, priority |-> 2, arrival_time |-> 0, due_date |-> 40],
       [flat_plan |-> ChainAE, priority |-> 2, arrival_time |-> 1, due_date |-> 40] >>

S2Configs == {Config(OneOfEach, 20, "FCFS", "FCFS", r, 16) : r \in {1, 2, 4, 8}}

InitS2 == Start(S2Configs, {S2Orders})

SpecS2 == InitS2 /\ [][Next]_vars

\* Scenario S3: one station of each type (of A..C, or of A..E), norm 2, one
\* order, a chain A -> B -> C of process_time 2 each, arriving at 0.  The
\* scenario leaves the rules and the round time open.
ChainABC ==
    << Task("T1", 2, "A", 0, 1, <<2>>), Task("T2", 2, "B", 1, 2, <<3>>),
       Task("T3", 2, "C", 2, 3, << >>) >>

S3Orders ==
    << [flat_plan |-> ChainABC, priority |-> 2, arrival_time |-> 0, due_date |-> 8] >>

S3Configs ==
    {Config(inst, 2, "FCFS", "FCFS", r, 8) :
        inst \in {OneEach, OneOfEach}, r \in {1, 2, 3, 4}}

InitS3 == Start(S3Configs, {S3Orders})

SpecS3 == InitS3 /\ [][Next]_vars

\* Scenario S4: pool rule FCFS, dispatching FCFS, one station per type; two
\* orders that differ in their priority only (0 and 2) arrive at the same
\* time, the order source delivering one or the other first.  The scenario
\* leaves the plan, the time of arrival, the norm and the round time open.
S4Orders ==
    {<< [flat_plan |-> ChainABC, priority |-> p, arrival_time |-> t, due_date |-> t + 8],
        [flat_plan |-> ChainABC, priority |-> 2 - p, arrival_time |-> t,
         due_date |-> t + 8] >> : p \in {0, 2}, t \in {0, 1}}

S4Configs == {Config(OneEach, n, "FCFS", "FCFS", r, 12) : n \in {2, 6}, r \in {1, 4}}

InitS4 == Start(S4Configs, S4Orders)

SpecS4 == InitS4 /\ [][Next]_vars

\* Scenario S1, the run of test_simulation: one station of each type A..E,
\* norm 6, pool rule EDD, dispatching SPT, a round every time unit, until 20,
\* and the six orders of create_test_orders.
FixturePlan1 ==
    << Task("T1", 3, "A", 0, 1, <<2, 5>>), Task("T2", 2, "B", 1, 2, <<3>>),
       Task("T4", 3, "D", 2, 3, <<4>>), Task("T5", 4, "E", 3, 4, << >>),
       Task("T3", 2, "C", 1, 2, << >>) >>

FixturePlan2 ==
    << Task("T4", 2, "D", 0, 1, <<2>>), Task("T1", 2, "A", 1, 2, <<3, 5>>),
       Task("T2", 3, "B", 2, 3, <<4>>), Task("T5", 4, "E", 3, 4, << >>),
       Task("T3", 3, "C", 2, 3, << >>) >>

create_test_orders ==
    << [flat_plan |-> FixturePlan1, priority |-> 2, arrival_time |-> 1, due_date |-> 15],
       [flat_plan |-> FixturePlan2, priority |-> 2, arrival_time |-> 1, due_date |-> 25],
       [flat_plan |-> FixturePlan2, priority |-> 2, arrival_time |-> 2, due_date |-> 30],
       [flat_plan |-> FixturePlan1, priority |-> 2, arrival_time |-> 2, due_date |-> 25],
       [flat_plan |-> FixturePlan1, priority |-> 2, arrival_time |-> 3, due_date |-> 20],
       [flat_plan |-> FixturePlan2, priority |-> 2, arrival_time |-> 3, due_date |-> 30] >>

S1Configs == {Config(OneOfEach, 6, "EDD", "SPT", 1, 20)}

InitS1 == Start(S1Configs, {create_test_orders})

SpecS1 == InitS1 /\ [][Next]_vars

\* Scenario S5: a parent on station A whose two branches (the parent
\* included) total 4 and 10 time units, the longer one second; dispatching
\* PST with an allowance of 0.5 per task
BranchPlan ==
    << Task("T1", 2, "A", 0, 1, <<2, 3>>), Task("T2", 2, "D", 1, 2, << >>),
       Task("T3", 5, "B", 1, 2, <<4>>), Task("T4", 3, "C", 3, 3, << >>) >>

S5Orders ==
    {<< [flat_plan |-> BranchPlan, priority |-> 1, arrival_time |-> 0, due_date |-> 20],
        [flat_plan |-> pl, priority |-> 1, arrival_time |-> g, due_date |-> d] >> :
        pl \in {BranchPlan, ChainABC}, g \in {0, 1}, d \in {14, 26}}

S5Configs ==
    {[Config(OneOfEach, n, "FCFS", "PST", r, 24) EXCEPT !.allowance = 5] :
        n \in {6, 20}, r \in {1, 4}}

InitS5 == Start(S5Configs, S5Orders)

SpecS5 == InitS5 /\ [][Next]_vars

\* Runs configured with a rule name that is not one of the rules: the pool
\* sequencing rule in the one, the dispatching rule in the other
BadRuleConfigs ==
    {Config(OneEach, n, r[1], r[2], 2, 8) :
        n \in {2, 6}, r \in {<<"LIFO", "FCFS">>, <<"FCFS", "LIFO">>}}

InitBadRule == Start(BadRuleConfigs, S4Orders)

SpecBadRule == InitBadRule /\ [][Next]_vars

\* Runs that are cut off at time 4 while an order is still to arrive, at the
\* cut-off or after it
CutOrders ==
    {<< [flat_plan |-> Plans[1], priority |-> 2, arrival_time |-> 0, due_date |-> 6],
        [flat_plan |-> Plans[pl], priority |-> 2, arrival_time |-> a, due_date |-> a + 8],
        [flat_plan |-> Plans[1], priority |-> 2, arrival_time |-> b, due_date |-> b + 6] >> :
        pl \in {1, 2, 3}, a \in {0, 1, 2}, b \in {4, 5}}

CutConfigs == {Config(OneEach, n, "FCFS", "FCFS", 2, 4) : n \in {2, 6}}

InitCut == Start(CutConfigs, CutOrders)

SpecCut == InitCut /\ [][Next]_vars

\* Runs in which the public methods of the control system and of a station
\* are also called from outside the station loops, with arguments the loops
\* themselves never pass: set_detailed_routing for an order that is already
\* released, remove_task for the task a station is processing.
CallsOrders ==
    {<< [flat_plan |-> Plans[2], priority |-> 2, arrival_time |-> 0, due_date |-> 8],
        [flat_plan |-> Plans[pl], priority |-> 2, arrival_time |-> g, due_date |-> 9] >> :
        pl \in {1, 3}, g \in {0, 1}}

CallsConfigs == {Config(TwoOfA, 5, "FCFS", "FCFS", 2, 6)}

InitCalls == Start(CallsConfigs, CallsOrders)

Called(name, arg) ==
    [World EXCEPT !.hist.ev = name, !.hist.arg = arg, !.hist.calls = @ + 1,
                  !.hist.log = << >>, !.hist.round = << >>, !.hist.cr = << >>, !.hist.upd = << >>]

\* orControlSystem.set_detailed_routing(order, station), called for a
\* released order
Reroute ==
    /\ failed = "none" /\ hist.ev # "end" /\ hist.calls = 0
    /\ \E o \in Orders : \E s \in Stations :
          /\ hist.released[o] > 0
          /\ Commit(set_detailed_routing(Called("route", o), o, s))

\* station.remove_task(order, task), called for the task in process
Retract ==
    /\ failed = "none" /\ hist.ev # "end" /\ hist.calls = 0
    /\ \E s \in Stations :
          /\ pc[s] = "busy"
          /\ Commit(remove_task(Called("remove", s), s, cur[s][1], cur[s][2]))

NextCalls ==
    \/ eid < MaxEvents /\ Next
    \/ Reroute
    \/ Retract

SpecCalls == InitCalls /\ [][NextCalls]_vars

\* A run that is not cut off: run_simulation is given a simulation time
\* that no schedule of the stream reaches (three orders of at most seven
\* time units of work, the last one arriving by time 3).  The environment
\* processes the events of its heap one after the other for as long as
\* there is one before the stop event, which is the weak fairness of Next.
\* Under norm 1 the first task of plan 2 alone exceeds the norm of B.
LiveKinds ==
    {[plan |-> 2, priority |-> 2, slack |-> 8],
     [plan |-> 3, priority |-> 1, slack |-> 5],
     [plan |-> 5, priority |-> 0, slack |-> 4]}

LiveConfigs ==
    {Config(OneEach, 1, "FCFS", "FCFS", 4, 40),
     Config(TwoOfA, 3, "EDD", "SPT", 4, 40)}

InitLive == Start(LiveConfigs, StreamsOf(LiveKinds))

SpecLive == InitLive /\ [][Next]_vars /\ WF_vars(Next)

\* ================================================================== claims
Running == failed = "none"
Norm == cfg.workload_norm * LoadScale
Queued(o, k) == \E s \in Stations : InSeq(queue[s], <<o, k>>)
Released(o) == hist.released[o] > 0
Roots(o) == {k \in Tasks(o) : Plan(o)[k].parent = 0}

RECURSIVE Ancestors(_, _)
Ancestors(o, k) ==
    IF Plan(o)[k].parent = 0 THEN {}
    ELSE {Plan(o)[k].parent} \cup Ancestors(o, Plan(o)[k].parent)

\* process_time / depth of task k, from the plan and the current depth
Corrected(o, k) == (Plan(o)[k].process_time * LoadScale) \div depth[o][k]

\* the tasks of released orders that are routed to s and still wait for a
\* predecessor
Upstream(s) ==
    {ok \in UNION {{<<o, k>> : k \in Tasks(o)} : o \in Orders} :
        /\ Released(ok[1])
        /\ assigned[ok[1]][ok[2]] = s
        /\ Ancestors(ok[1], ok[2]) \ completed[ok[1]] # {}
        /\ ~InSeq(queue[s], ok)}

RECURSIVE SumCorrected(_)
SumCorrected(S) ==
    IF S = {} THEN 0
    ELSE LET ok == CHOOSE x \in S : TRUE
         IN Corrected(ok[1], ok[2]) + SumCorrected(S \ {ok})

\* C1 (I3/P1, load conservation): after every event every station's
\* indirect_load equals the sum of process_time/depth over the tasks of
\* released orders that are assigned to it, wait for a not yet completed
\* predecessor and are not in its queue -- for any number of instances per
\* type and after rejections followed by re-routing.
C1_LoadConservation ==
    Running => \A s \in Stations : indirect[s] = SumCorrected(Upstream(s))

\* the evaluations of the periodic round and the continuous_release calls
\* of the step that led to the current state
Rounds == {hist.round[i] : i \in 1..Len(hist.round)}
Calls == {hist.cr[i] : i \in 1..Len(hist.cr)}

\* C2 (P3, admission contract): right after every release made by
\* periodic_release -- the first and every later one of the same round --
\* every station has direct_load + indirect_load <= workload_norm.
C2_AdmissionContract ==
    \A r \in Rounds :
        (r.can_release /\ r.failed = "none")
            => \A s \in Stations : r.after[s].load <= Norm

\* a round that released two orders, the second onto a loaded shop
C2_Witness ==
    \E i, j \in 1..Len(hist.round) :
        /\ i < j
        /\ hist.round[i].can_release /\ hist.round[j].can_release
        /\ hist.round[j].failed = "none"
        /\ \E s \in Stations :
              /\ hist.round[j].loads[s] > 0
              /\ hist.round[j].after[s].load > hist.round[j].loads[s]

\* what the order evaluated in r asks of station s: the sum of
\* process_time/depth over its tasks routed to s
Demand(r, s) ==
    SumCorrected({<<r.o, k>> : k \in {j \in Tasks(r.o) : r.assigned[j] = s}})

\* C3 (admission test): can_release_order answers (True, []) exactly when
\* current_load + the order's contributions of the tasks routed to s is
\* <= workload_norm for every station s, and otherwise False with exactly
\* the stations over the norm; the test changes no queue and no indirect_load.
C3_AdmissionTest ==
    \A r \in Rounds :
        LET over == {s \in Stations : r.loads[s] + Demand(r, s) > Norm} IN
        /\ r.can_release <=> (over = {})
        /\ {r.overloaded[i] : i \in 1..Len(r.overloaded)} = over
        /\ r.tested = r.before

\* C4 (starvation avoidance): continuous_release applies no norm test:
\* whenever the pool holds an order with a ready task of the station's type
\* the call releases such an order, whatever loads result.
C4_BypassesNorm ==
    \A c \in Calls :
        (c.failed = "none" /\ \E o \in Orders :
            /\ InSeq(c.pool, o)
            /\ \E k \in Roots(o) : Plan(o)[k].station = station_list[c.s].type_id)
        => /\ c.released # 0
           /\ InSeq(c.pool, c.released) /\ ~InSeq(c.pool_after, c.released)
           /\ \E k \in Roots(c.released) :
                 /\ Plan(c.released)[k].station = station_list[c.s].type_id
                 /\ InSeq(c.after[c.s].queue, <<c.released, k>>)

\* a continuous release that leaves a station above the norm
C4_Witness ==
    \E c \in Calls :
        /\ c.failed = "none" /\ c.released # 0
        /\ \E s \in Stations : c.after[s].load > Norm

\* the pool sequence: ascending in (priority, rule key)
InPoolSequence(q) ==
    \A i, j \in 1..Len(q) : i < j => ~PoolKeyLess(World, q[j], q[i])
HasRootFor(o, s) ==
    \E k \in Roots(o) : Plan(o)[k].station = station_list[s].type_id

\* C5: one call of continuous_release releases at most one order: the first
\* order of the pool sequence with a ready task of the station's type,
\* whose ready task of that type is enqueued at the calling station; when
\* there is none, the pool, the queues and the indirect loads stay as they
\* were and the station stays idle.
C5_ContinuousRelease ==
    \A c \in Calls :
        c.failed = "none" =>
        /\ InPoolSequence(c.pool)
        /\ Len(c.pool) - Len(c.pool_after) <= 1
        /\ IF \E i \in 1..Len(c.pool) : HasRootFor(c.pool[i], c.s)
           THEN LET i == CHOOSE i \in 1..Len(c.pool) :
                            /\ HasRootFor(c.pool[i], c.s)
                            /\ \A j \in 1..(i-1) : ~HasRootFor(c.pool[j], c.s)
                IN /\ c.released = c.pool[i]
                   /\ c.pool_after = SubSeq(c.pool, 1, i - 1)
                                        \o SubSeq(c.pool, i + 1, Len(c.pool))
                   /\ \A k \in Roots(c.released) :
                         Plan(c.released)[k].station = station_list[c.s].type_id
                            => InSeq(c.after[c.s].queue, <<c.released, k>>)
           ELSE /\ c.released = 0
                /\ c.pool_after = c.pool
                /\ \A t \in Stations :
                      /\ c.after[t].queue = c.before[t].queue
                      /\ c.after[t].indirect = c.before[t].indirect
                /\ c.idle_after /\ ~c.triggered_after
                /\ c.evq_after = c.evq_before

\* a call that passed over an earlier order of the pool sequence, and a call
\* that found nothing to release in a pool that is not empty
C5_Witness ==
    /\ \E c \in Calls :
          /\ c.failed = "none" /\ c.released # 0
          /\ Len(c.pool) >= 2 /\ c.pool[1] # c.released
    /\ \E c \in Calls : c.released = 0 /\ Len(c.pool) >= 1

\* C6 (immediate release on arrival): the arrival handler pools the order
\* and offers the pool to the idle stations within the same step; an order
\* arriving while a station of the type of one of its roots waits idle, with
\* no pool order sequenced at or before it that has a root of that type, is
\* out of the pool and released, its roots queued, when the step ends, at
\* its arrival time.
C6_ImmediateRelease ==
    [][\A o \in Orders, s \in Stations :
        (/\ hist'.ev = "gen" /\ hist'.arg = o
         /\ idle[s] /\ ~triggered[s] /\ HasRootFor(o, s)
         /\ ~\E i \in 1..Len(pool) :
               /\ HasRootFor(pool[i], s)
               /\ ~PoolKeyLess([World EXCEPT !.now = now'], o, pool[i])
         /\ failed' = "none")
        => /\ hist'.pooled[o] = 1 /\ hist'.released[o] = 1
           /\ ~InSeq(pool', o)
           /\ now' = orders[o].arrival_time
           /\ \A k \in Roots(o) : \E t \in Stations : InSeq(queue'[t], <<o, k>>)
           /\ \E i \in 1..Len(hist'.cr) : hist'.cr[i].released = o]_vars

\* an order released by its own arrival, after time 0, past an order that
\* stays in the pool
C6_Witness ==
    /\ hist.ev = "gen" /\ failed = "none" /\ now > 0
    /\ hist.released[hist.arg] = 1 /\ ~InSeq(pool, hist.arg)
    /\ \E i \in 1..Len(hist.cr) : hist.cr[i].released = hist.arg
    /\ pool # << >>

\* C7 (I2/P4, ready correctness): at every yield point a task is in
\* ready_tasks exactly when it is not completed, in no queue, and all its
\* ancestors are completed; ready_tasks holds no task twice.
C7_ReadyCorrectness ==
    Running => \A o \in Orders :
        /\ \A k \in Tasks(o) :
              InSeq(ready[o], k) <=>
                  /\ k \notin completed[o]
                  /\ ~Queued(o, k)
                  /\ Ancestors(o, k) \subseteq completed[o]
        /\ \A i, j \in 1..Len(ready[o]) : ready[o][i] = ready[o][j] => i = j

\* an order in progress: a task completed, its child queued, a grandchild
\* pending, next to an order whose roots are still ready
C7_Witness ==
    /\ Running
    /\ \E o \in Orders : \E k \in Tasks(o) :
          /\ completed[o] # {} /\ Queued(o, k) /\ Plan(o)[k].parent # 0
          /\ \E j \in Tasks(o) : Plan(o)[j].parent = k
    /\ \E o \in Orders : InSeq(pool, o) /\ ready[o] # << >>

\* C8 (I5/P5, order completion): finish_time > 0 exactly when every task of
\* flat_plan is completed; finish_time is written once, by the completion
\* of the order's last remaining task and with the time of that completion.
C8_OrderCompletion ==
    /\ [](\A o \in Orders :
            /\ finish[o] > 0 <=> completed[o] = Tasks(o)
            /\ hist.finished[o] = IF finish[o] > 0 THEN 1 ELSE 0)
    /\ [][\A o \in Orders :
            finish'[o] # finish[o] =>
                /\ finish[o] = 0 /\ finish'[o] = now'
                /\ hist'.ev = "done" /\ cur[hist'.arg][1] = o
                /\ completed[o] # Tasks(o)
                /\ completed'[o] = Tasks(o)
                /\ completed'[o] = completed[o] \cup {cur[hist'.arg][2]}]_vars

\* an order of several tasks is finished while another is still in work
C8_Witness ==
    \E o, p \in Orders :
        /\ NT(o) > 1 /\ finish[o] > 0 /\ completed[o] = Tasks(o)
        /\ finish[p] = 0 /\ completed[p] # {}

\* no order twice in the pool
PoolHasNoDuplicate == \A i, j \in 1..Len(pool) : pool[i] = pool[j] => i = j

\* C9 (I6, no double release): an order is pooled once and leaves the pool
\* at most once, by its one release; it is never removed while absent from
\* the pool and its contributions are added to the station loads once.
C9_NoDoubleRelease ==
    /\ failed # "ValueError: list.remove"
    /\ PoolHasNoDuplicate
    /\ \A o \in Orders :
          /\ hist.pooled[o] <= 1 /\ hist.released[o] <= 1
          /\ hist.removed[o] <= 1 /\ hist.loaded[o] <= 1
          /\ hist.removed[o] <= hist.released[o]
          /\ hist.released[o] <= hist.pooled[o]
          /\ Running =>
                /\ hist.removed[o] = hist.released[o]
                /\ hist.loaded[o] = hist.released[o]
                /\ InSeq(pool, o) <=> (hist.pooled[o] = 1 /\ hist.removed[o] = 0)

\* an arrival, a round and continuous releases at one instant: the step of
\* a tick at the time of an arrival, every order released, by both paths
C9_Witness ==
    /\ Running /\ hist.ev = "tick"
    /\ \E o \in Orders : orders[o].arrival_time = now
    /\ \A o \in Orders : hist.released[o] = 1
    /\ \E i \in 1..Len(hist.round) : hist.round[i].can_release
    /\ \E o \in Orders : \A i \in 1..Len(hist.round) : hist.round[i].o # o

\* C10 (I7, task-to-station match): a queued (order, task) is assigned to
\* the station that queues it, which is of the task's station type; routing
\* leaves the assignment of queued tasks and of released orders alone.
C10_TaskStationMatch ==
    /\ [](\A s \in Stations : \A i \in 1..Len(queue[s]) :
            LET o == queue[s][i][1]
                k == queue[s][i][2]
            IN /\ assigned[o][k] = s
               /\ Plan(o)[k].station = station_list[s].type_id)
    /\ [][\A o \in Orders : \A k \in Tasks(o) :
            (hist.released[o] = 1 \/ Queued(o, k))
                => assigned'[o][k] = assigned[o][k]]_vars

\* a released order holds a task at the second instance of a type while an
\* order routed twice waits in the pool
C10_Witness ==
    /\ \E s \in Stations : station_list[s].instance_id = 2 /\ queue[s] # << >>
    /\ \E o \in Orders :
          /\ InSeq(pool, o)
          /\ \E s \in Stations : \E k \in DOMAIN contrib[o][s] : assigned[o][k] # s

C12_IdleEventDiscipline ==
    /\ failed # "RuntimeError: already triggered"
    /\ \A s \in Stations :
          pc[s] = "idle_wait" /\ triggered[s] => queue[s] # << >>

\* C13 (work/idle partition): after the finalization at simulation end,
\* total_work_time + total_idle_time of every station equals the
\* simulation time.
C13_WorkIdlePartition ==
    hist.ev = "end" =>
        \A s \in Stations :
            clock[s].total_work_time + clock[s].total_idle_time = cfg.until

\* a finished run in which one station ends in the middle of a task after
\* having been idle and having worked before, and another one ends idle
\* after having worked
C13_Witness ==
    /\ hist.ev = "end"
    /\ \E s \in Stations :
          /\ pc[s] = "busy" /\ ~idle[s]
          /\ clock[s].last_work_start > 0
          /\ clock[s].total_idle_time > 0
          /\ clock[s].total_work_time > cfg.until - clock[s].last_work_start
    /\ \E s \in Stations :
          /\ pc[s] = "idle_wait" /\ idle[s]
          /\ clock[s].total_work_time > 0
          /\ clock[s].last_idle_start > 0

\* the dispatching key of queue entry a is not above that of entry b:
\* priority first, then process_time (SPT), planned_start_time (PST, p the
\* planned start times) or, under FCFS, the number n of the enqueueing
DispatchLeq(p, n, a, b) ==
    LET pa == orders[a[1]].priority
        pb == orders[b[1]].priority
    IN \/ pa < pb
       \/ /\ pa = pb
          /\ CASE cfg.dispatching_rule = "SPT" ->
                     Plan(a[1])[a[2]].process_time <= Plan(b[1])[b[2]].process_time
                [] cfg.dispatching_rule = "PST" -> p[a[1]][a[2]] <= p[b[1]][b[2]]
                [] OTHER -> n[a[1]][a[2]] <= n[b[1]][b[2]]

\* C14 (dispatching): whenever a free station with a non-empty queue picks
\* its next task, the task is one of its queue and no queued task has a
\* smaller key (priority, then process_time under SPT, planned_start_time
\* under PST); under FCFS no queued task of the same priority was added
\* to the queue earlier.
C14_Dispatching ==
    [][\A s \in Stations :
          pc[s] # "req_wait" /\ pc'[s] = "req_wait" =>
              /\ InSeq(queue'[s], cur'[s])
              /\ \A i \in 1..Len(queue'[s]) :
                    DispatchLeq(pst', hist'.enq_no, cur'[s], queue'[s][i])]_vars

\* a station picks a task that is not the oldest entry of its queue and
\* leaves behind a task of larger key that was added before it
C14_Witness ==
    \E s \in Stations :
        /\ pc[s] = "req_wait"
        /\ \E i \in 1..Len(queue[s]) :
              /\ hist.enq_no[queue[s][i][1]][queue[s][i][2]]
                    < hist.enq_no[cur[s][1]][cur[s][2]]
              /\ ~DispatchLeq(pst, hist.enq_no, queue[s][i], cur[s])

\* the pool key of order a at time t is not above that of order b:
\* priority, then arrival_time (FCFS), due_date (EDD) or the critical ratio
\* (due_date - t) / total_process_time (CR), compared as fractions
PoolLeq(t, a, b) ==
    \/ orders[a].priority < orders[b].priority
    \/ /\ orders[a].priority = orders[b].priority
       /\ CASE cfg.pool_sequencing_rule = "FCFS" ->
                  orders[a].arrival_time <= orders[b].arrival_time
             [] cfg.pool_sequencing_rule = "EDD" ->
                  orders[a].due_date <= orders[b].due_date
             [] OTHER ->
                  (orders[a].due_date - t) * total_process_time(b)
                      <= (orders[b].due_date - t) * total_process_time(a)

Ascending(t, q) == \A i, j \in 1..Len(q) : i < j => PoolLeq(t, q[i], q[j])
SameOrders(q, r) ==
    /\ Len(q) = Len(r)
    /\ {q[i] : i \in 1..Len(q)} = {r[i] : i \in 1..Len(r)}
    /\ \A i, j \in 1..Len(q) : i < j => q[i] # q[j]

\* the orders evaluated by the periodic round of the last step, in order
Evaluated(h) == [i \in 1..Len(h.round) |-> h.round[i].o]

\* C15 (pool sequencing): a periodic round evaluates the orders that are
\* in the pool at the tick, each exactly once, in ascending order of
\* (priority, rule key at the time of the round); every call of
\* continuous_release goes through the pool in that order too.
C15_PoolSequencing ==
    [][/\ (hist'.ev = "tick" /\ failed' = "none") =>
             /\ SameOrders(Evaluated(hist'), pool)
             /\ Ascending(now', Evaluated(hist'))
       /\ \A i \in 1..Len(hist'.cr) :
             hist'.cr[i].failed = "none" =>
                 /\ Ascending(now', hist'.cr[i].pool)
                 /\ {hist'.cr[i].pool[j] : j \in 1..Len(hist'.cr[i].pool)}
                       = {hist'.cr[i].pool_after[j] :
                              j \in 1..Len(hist'.cr[i].pool_after)}
                         \cup ({hist'.cr[i].released} \ {0})]_vars

\* a round under CR evaluates, ahead of an order that arrived before it, an
\* order of the same priority that is past its due date
C15_Witness ==
    /\ hist.ev = "tick" /\ failed = "none"
    /\ cfg.pool_sequencing_rule = "CR"
    /\ \E i, j \in 1..Len(hist.round) :
          /\ i < j
          /\ orders[hist.round[i].o].priority = orders[hist.round[j].o].priority
          /\ hist.round[i].o > hist.round[j].o
          /\ orders[hist.round[i].o].due_date < now
          /\ orders[hist.round[j].o].due_date < now

\* the pending event that is first by (time, eid), the world in which it has
\* been taken from the heap, and the world that its handler leaves
First ==
    CHOOSE e \in {evq[i] : i \in 1..Len(evq)} :
        \A i \in 1..Len(evq) :
            \/ evq[i] = e
            \/ e.time < evq[i].time
            \/ e.time = evq[i].time /\ e.eid < evq[i].eid

Taken(e) ==
    [World EXCEPT !.now = e.time,
                  !.evq = SelectSeq(evq, LAMBDA x : x # e),
                  !.hist.ev = e.kind, !.hist.arg = e.arg,
                  !.hist.log = << >>, !.hist.round = << >>, !.hist.cr = << >>, !.hist.upd = << >>]

Resumed(e) ==
    CASE e.kind = "gen" -> OnArrival(Taken(e), e.arg)
      [] e.kind = "tick" -> OnTick(Taken(e))
      [] e.kind = "wake" -> OnWake(Taken(e), e.arg)
      [] e.kind = "req" -> OnRequest(Taken(e), e.arg)
      [] e.kind = "done" -> OnDone(Taken(e), e.arg)
      [] OTHER -> LoopBody(Taken(e), e.arg)

C17_MonotoneTime ==
    [][/\ now' >= now
       /\ \A i \in 1..Len(hist'.log) : hist'.log[i].time = now'
       /\ IF hist'.ev = "end"
          THEN /\ now' = cfg.until
               /\ \A i \in 1..Len(evq) : evq[i].time >= cfg.until
          ELSE \E i \in 1..Len(evq) :
                  /\ evq[i].kind = hist'.ev /\ evq[i].arg = hist'.arg
                  /\ evq[i].time = now'
                  /\ \A j \in 1..Len(evq) :
                        \/ evq[j].time > evq[i].time
                        \/ evq[j].time = evq[i].time /\ evq[j].eid >= evq[i].eid
                  /\ \A j \in 1..Len(evq') : evq'[j].eid # evq[i].eid]_vars

\* after time 0, a completion has logged several entries while an event
\* that was scheduled later for the same time is still pending
C17_Witness ==
    /\ hist.ev = "done" /\ now > 0 /\ failed = "none"
    /\ Len(hist.log) >= 3
    /\ \E i \in 1..Len(evq) :
          evq[i].time = now /\ evq[i].kind \in {"gen", "tick", "wake"}

\* C18 (scenario S2, times in units of 0.5): the run does not fail; the
\* first order is released by its arrival at t=0; a task of an order starts
\* once, and only after the task before it in the chain is completed; O-1
\* is finished at 5.0 and O-2 at 6.0.
C18_ScenarioS2 ==
    /\ [](/\ failed = "none"
          /\ hist.ev # "init" => hist.released[1] = 1 /\ ~InSeq(pool, 1)
          /\ \A o \in Orders : \A k \in Tasks(o) :
                /\ hist.started[o][k] <= 1
                /\ (k > 1 /\ hist.started[o][k] = 1) => (k - 1) \in completed[o]
          /\ finish[1] \in {0, 10} /\ finish[2] \in {0, 12}
          /\ now >= 10 /\ hist.ev \in {"pend", "end"} => finish[1] = 10
          /\ hist.ev = "end" => finish[2] = 12)
    /\ [][hist'.released[1] # hist.released[1] =>
             now' = 0 /\ hist'.ev = "gen" /\ hist'.arg = 1]_vars

\* the run has ended with both orders finished, the second one after it
\* waited in the pool
C18_Witness ==
    /\ hist.ev = "end" /\ finish[1] = 10 /\ finish[2] = 12
    /\ \A o \in Orders : \A k \in Tasks(o) : hist.started[o][k] = 1

\* the station of type A of the scenarios with one station per type
StationA == CHOOSE s \in Stations : station_list[s].type_id = "A"

\* C19 (scenario S3) as stated: the order is rejected by the admission test
\* of periodic_release, and it is released by continuous release while
\* station A is idle at t=0.
C19_ScenarioS3_AsStated ==
    hist.ev = "end" => hist.rejected[1] >= 1 /\ hist.released[1] = 1

\* C19 (scenario S3), amended: the order is released by the continuous
\* release of its arrival step at t=0, offered to the idle station A; no
\* round of periodic_release ever evaluates it, none rejects it, and the
\* admission test applied to the empty shop lets it pass (its contributions
\* 2, 1 and 0.667 do not exceed the norm 2).
C19_ScenarioS3 ==
    /\ [](/\ failed = "none"
          /\ hist.rejected[1] = 0 /\ hist.round = << >>
          /\ hist.ev # "init" => hist.released[1] = 1 /\ pool = << >>
          /\ hist.ev = "init" =>
                /\ idle[StationA]
                /\ can_release_order(set_detailed_routing(World, 1, 0), 1)[1]
                /\ estimate_load_contribution(
                       set_detailed_routing(World, 1, 0), 1,
                       [s \in Stations |-> 0])[StationA] = 2 * LoadScale)
    /\ [][hist'.released[1] # hist.released[1] =>
             /\ now' = 0 /\ hist'.ev = "gen" /\ hist'.arg = 1
             /\ idle[StationA]
             /\ \E i \in 1..Len(hist'.cr) :
                   hist'.cr[i].released = 1 /\ hist'.cr[i].s = StationA]_vars

\* the run has ended after rounds of periodic_release that found the pool
\* empty, with the order finished
C19_Witness ==
    /\ hist.ev = "end" /\ hist.released[1] = 1 /\ hist.rejected[1] = 0
    /\ finish[1] = 6 /\ cfg.round_time = 1

\* the order of priority 0 and the order of priority 2 of scenario S4
Urgent == CHOOSE o \in Orders : orders[o].priority = 0
Normal == CHOOSE o \in Orders : orders[o].priority = 2

\* C20 (scenario S4): whichever of the two orders is delivered first, the
\* order of priority 0 is released before the order of priority 2 (in an
\* earlier step, or earlier in the same round), and each of its tasks is
\* started before the same task of the order of priority 2.
C20_ScenarioS4 ==
    /\ hist.released[Normal] > 0 => hist.released[Urgent] > 0
    /\ \A i, j \in 1..Len(hist.round) :
          (/\ hist.round[i].o = Normal /\ hist.round[i].can_release
           /\ hist.round[j].o = Urgent) => j < i
    /\ \A k \in Tasks(Normal) :
          hist.started[Normal][k] > 0 => hist.started[Urgent][k] > 0

\* C21 (scenario S1): the run of the test fixture raises no error, and
\* orders O-1 and O-5 are each released before order O-3.
C21_ScenarioS1 ==
    /\ failed = "none"
    /\ hist.released[3] > 0 => hist.released[1] > 0 /\ hist.released[5] > 0
    /\ \A i, j \in 1..Len(hist.round) :
          (/\ hist.round[i].o = 3 /\ hist.round[i].can_release
           /\ hist.round[j].o \in {1, 5}) => j < i

\* the paths from task k of order o (inclusive) down to a leaf
RECURSIVE PathsFrom(_, _)
PathsFrom(o, k) ==
    IF Children(o, k) = << >> THEN {<<k>>}
    ELSE UNION {{<<k>> \o p : p \in PathsFrom(o, Children(o, k)[i])} :
                   i \in 1..Len(Children(o, k))}

PathTime(o, p) == SumSeq([i \in 1..Len(p) |-> Plan(o)[p[i]].process_time])

\* due_date - max_branch_time - k * n over a path of largest process time
PlannedStartOf(o, k, v) ==
    \E p \in PathsFrom(o, k) :
        /\ \A q \in PathsFrom(o, k) : PathTime(o, q) <= PathTime(o, p)
        /\ v = PstScale * orders[o].due_date - PstScale * PathTime(o, p)
                - cfg.allowance * Len(p)

\* C22 (planned start time): a task gets its planned_start_time in the step
\* that adds it to a workstation queue, the value is due_date minus the
\* largest path time from the task down to a leaf minus the allowance times
\* the number of tasks on that path, it never changes afterwards, and every
\* task in a queue has one.
C22_PlannedStartTime ==
    [][\A o \in DOMAIN orders : \A k \in Tasks(o) :
          /\ k \in DOMAIN pst[o] => k \in DOMAIN pst'[o] /\ pst'[o][k] = pst[o][k]
          /\ (k \in DOMAIN pst'[o] /\ k \notin DOMAIN pst[o]) =>
                 /\ hist'.enq[o][k] = hist.enq[o][k] + 1
                 /\ PlannedStartOf(o, k, pst'[o][k])
          /\ hist'.enq[o][k] > hist.enq[o][k] => k \in DOMAIN pst'[o]
          /\ \A s \in Stations : InSeq(queue'[s], <<o, k>>) => k \in DOMAIN pst'[o]
      ]_vars

\* the parent of the two branches of 4 and 10, due 20, allowance 0.5, sits in
\* the queue of station A with planned start time 20 - 10 - 0.5 * 3 = 8.5
C22_Witness ==
    /\ cfg.allowance = 5 /\ cfg.dispatching_rule = "PST"
    /\ orders[1].flat_plan = BranchPlan /\ orders[1].due_date = 20
    /\ \E s \in Stations : InSeq(queue[s], <<1, 1>>)
    /\ 1 \in DOMAIN pst[1] /\ pst[1][1] = 85

\* C23 (consistency violations are fatal): a step that reports a task at
\* the wrong station, or a completed task that is not in the station's
\* queue, stops the run.
C23_ViolationsFatal ==
    (\E i \in 1..Len(hist.log) : hist.log[i].type = "error") => failed # "none"

ValidRules ==
    /\ cfg.pool_sequencing_rule \in {"FCFS", "EDD", "CR"}
    /\ cfg.dispatching_rule \in {"FCFS", "SPT", "PST"}

\* C24 (configuration errors fail fast): under a rule name that is not one
\* of the rules the run stops at the first use of the rule: no order is
\* released from an unsorted pool and no task is started from an unsorted
\* queue.
C24_FailFast ==
    /\ (\E i \in 1..Len(hist.log) : hist.log[i].type = "error" /\ hist.log[i].o = 0)
           => failed # "none"
    /\ cfg.pool_sequencing_rule \notin {"FCFS", "EDD", "CR"} =>
           \A o \in Orders : hist.released[o] = 0
    /\ cfg.dispatching_rule \notin {"FCFS", "SPT", "PST"} =>
           \A o \in Orders : \A k \in Tasks(o) : hist.started[o][k] = 0

\* C25 (contributions are rebuilt from scratch): once an order is routed,
\* load_contributions holds for each of its tasks that is not completed
\* exactly one entry, under the station the task is assigned to and with
\* load process_time/depth, and none under any other station.
C25_RebuiltFromScratch ==
    \A o \in Orders : \A k \in Tasks(o) :
        (assigned[o][k] # 0 /\ k \notin completed[o]) =>
            /\ k \in DOMAIN contrib[o][assigned[o][k]]
            /\ contrib[o][assigned[o][k]][k] = calculate_load(World, o, k)
            /\ \A s \in Stations \ {assigned[o][k]} : k \notin DOMAIN contrib[o][s]

\* the current_load of a station whose queue and indirect_load are b
LoadIn(b) ==
    b.indirect + SumSeq([i \in 1..Len(b.queue) |->
                           Plan(b.queue[i][1])[b.queue[i][2]].process_time * LoadScale])

\* s is the first of the instances of task k's type with the least of loads
LeastLoaded(o, k, s, loads) ==
    /\ station_list[s].type_id = Plan(o)[k].station
    /\ \A t \in Stations :
          station_list[t].type_id = Plan(o)[k].station =>
              /\ loads[s] <= loads[t]
              /\ t < s => loads[t] > loads[s]

\* C26 (routing): set_detailed_routing gives every task of the plan an
\* instance of the task's station type: the triggering station for the
\* tasks of its type, and for every other task the first instance of least
\* current_load at the moment of the call.
C26_Routing ==
    /\ \A r \in Rounds : \A k \in Tasks(r.o) :
          LeastLoaded(r.o, k, r.assigned[k], r.loads)
    /\ \A c \in Calls : c.released # 0 => \A k \in Tasks(c.released) :
          IF Plan(c.released)[k].station = station_list[c.s].type_id
          THEN c.assigned[k] = c.s
          ELSE LeastLoaded(c.released, k, c.assigned[k],
                           [t \in Stations |-> LoadIn(c.before[t])])

\* a round gives a task the second instance of its type, the first one
\* carrying more load
C26_Witness ==
    \E r \in Rounds : \E k \in Tasks(r.o) : \E t \in Stations :
        /\ t < r.assigned[k] /\ r.loads[t] > r.loads[r.assigned[k]]
        /\ station_list[t].type_id = Plan(r.o)[k].station

Updates == {hist.upd[i] : i \in 1..Len(hist.upd)}
Subtree(o, k) == {c \in Tasks(o) : k \in Ancestors(o, c)}

\* process_time/(d-1) - process_time/d, summed over the tasks of S
RECURSIVE SumRise(_, _, _)
SumRise(o, S, d) ==
    IF S = {} THEN 0
    ELSE LET c == CHOOSE x \in S : TRUE
         IN (Plan(o)[c].process_time * LoadScale) \div (d[o][c] - 1)
            - (Plan(o)[c].process_time * LoadScale) \div d[o][c]
            + SumRise(o, S \ {c}, d)

C29_RejectionFrame ==
    [][(hist'.ev = "tick" /\ failed' = "none") =>
          /\ Len(hist'.round) = Len(pool)
          /\ {hist'.round[i].o : i \in 1..Len(hist'.round)}
                 = {pool[i] : i \in 1..Len(pool)}
          /\ \A i \in 1..Len(hist'.round) :
                LET r == hist'.round[i] IN
                ~r.can_release =>
                    /\ InSeq(r.pool_after, r.o) /\ InSeq(pool', r.o)
                    /\ r.ready_after = r.ready_before
                    /\ \A k \in Tasks(r.o) : hist'.enq[r.o][k] = 0
                    /\ \A s \in Stations :
                          /\ r.after[s].queue = r.before[s].queue
                          /\ r.after[s].indirect = r.before[s].indirect
      ]_vars

\* a round rejects an order that an earlier round had rejected already and
\* then goes on to evaluate, and release, another order
C29_Witness ==
    /\ hist.ev = "tick" /\ failed = "none"
    /\ \E i, j \in 1..Len(hist.round) :
          /\ i < j
          /\ ~hist.round[i].can_release /\ hist.rejected[hist.round[i].o] >= 2
          /\ hist.round[j].can_release

\* the 'Task Start' and 'Task Complete' entries of station s in a log
TaskEvents(log, s) ==
    SelectSeq(log, LAMBDA e : e.s = s /\ e.type \in {"Task Start", "Task Complete"})

\* C30 (no preemption, unit capacity): while a station processes a task
\* started at time t, its next 'Task Start' or 'Task Complete' is the
\* completion of that task at t + process_time; until then the station
\* keeps the task, which stays first in its queue, and tasks added
\* meanwhile are appended behind it without a re-sort.
C30_NoPreemption ==
    [][\A s \in Stations :
          (pc[s] = "busy" /\ failed' = "none") =>
              LET ot == cur[s]
                  evs == TaskEvents(hist'.log, s)
              IN IF evs # << >>
                 THEN /\ evs[1].type = "Task Complete"
                      /\ evs[1].o = ot[1] /\ evs[1].k = ot[2]
                      /\ evs[1].time = clock[s].last_work_start
                                          + Plan(ot[1])[ot[2]].process_time
                      /\ now' = evs[1].time
                      /\ Len(evs) = 1
                 ELSE /\ pc'[s] = "busy" /\ cur'[s] = ot
                      /\ Len(queue'[s]) >= Len(queue[s])
                      /\ SubSeq(queue'[s], 1, Len(queue[s])) = queue[s]
                      /\ queue[s][1] = ot
                      /\ clock'[s].last_work_start = clock[s].last_work_start
      ]_vars

\* a station is at work on a task of a priority-2 order while a task of an
\* order of smaller priority value, added after the start, waits behind it
C30_Witness ==
    \E s \in Stations :
        /\ pc[s] = "busy" /\ failed = "none" /\ Len(queue[s]) >= 2
        /\ queue[s][1] = cur[s]
        /\ orders[queue[s][2][1]].priority < orders[cur[s][1]].priority
        /\ hist.enq_no[queue[s][2][1]][queue[s][2][2]] > hist.enq_no[cur[s][1]][cur[s][2]]
        /\ now > clock[s].last_work_start

\* the stage of task k of order o: 0 pending, 1 ready, 2 queued, 3 running,
\* 4 completed
StageIn(compl, rdy, q, p, c, o, k) ==
    IF k \in compl[o] THEN 4
    ELSE IF \E s \in Stations : p[s] = "busy" /\ c[s] = <<o, k>> THEN 3
    ELSE IF \E s \in Stations : InSeq(q[s], <<o, k>>) THEN 2
    ELSE IF InSeq(rdy[o], k) THEN 1
    ELSE 0

\* C31 (task lifecycle and precedence): a task only moves forward through
\* pending, ready, queued, running, completed; a started task has a
\* completed parent; a root is enqueued in the step that releases its
\* order and any other task in the step that completes its parent, at its
\* assigned station and at that instant; after a step that enqueues a task
\* its order is not in the pool.
C31_Lifecycle ==
    [][failed' = "none" =>
          \A o \in Orders : \A k \in Tasks(o) :
              LET parent == Plan(o)[k].parent IN
              /\ StageIn(completed', ready', queue', pc', cur', o, k)
                    >= StageIn(completed, ready, queue, pc, cur, o, k)
              /\ (hist'.started[o][k] > 0 /\ parent # 0) => parent \in completed'[o]
              /\ hist'.enq[o][k] > hist.enq[o][k] =>
                    /\ hist.enq[o][k] = 0 /\ hist'.enq[o][k] = 1
                    /\ ~InSeq(pool', o)
                    /\ IF parent = 0
                       THEN hist.released[o] = 0 /\ hist'.released[o] = 1
                       ELSE parent \in completed'[o] \ completed[o]
                    /\ \E i \in 1..Len(hist'.log) :
                          /\ hist'.log[i].type = "Task Added"
                          /\ hist'.log[i].o = o /\ hist'.log[i].k = k
                          /\ hist'.log[i].s = assigned'[o][k]
                          /\ hist'.log[i].time = now'
              /\ (parent = 0 /\ hist'.released[o] > hist.released[o])
                    => hist'.enq[o][k] = 1
              /\ (parent # 0 /\ parent \in completed'[o] \ completed[o])
                    => hist'.enq[o][k] = 1
      ]_vars

\* a task below a completed root is running while its own child still
\* waits for it
C31_Witness ==
    /\ failed = "none"
    /\ \E o \in Orders : \E k \in Tasks(o) :
          /\ Plan(o)[k].parent # 0 /\ Plan(o)[k].parent \in completed[o]
          /\ StageIn(completed, ready, queue, pc, cur, o, k) = 3
          /\ \E c \in Tasks(o) :
                /\ Plan(o)[c].parent = k
                /\ StageIn(completed, ready, queue, pc, cur, o, c) = 0

\* C32 (cut-off): every event applied has a time before until, the run ends
\* at until without an error and nothing is applied after that; a task in
\* progress at until is not completed, and an order with a task that is not
\* completed has finish_time 0 and is reported as not finished.
C32_CutOff ==
    [][/\ hist.ev # "end"
       /\ hist'.ev # "end" => now' < cfg.until
       /\ \A o \in Orders :
             Tasks(o) \ completed'[o] # {} => finish'[o] = 0
       /\ hist'.ev = "end" =>
             /\ now' = cfg.until /\ failed' = "none"
             /\ evq' = evq /\ completed' = completed /\ finish' = finish
             /\ pool' = pool /\ queue' = queue
             /\ hist'.released = hist.released
             /\ \A s \in Stations :
                   pc[s] = "busy" => cur[s][2] \notin completed'[cur[s][1]]
             /\ \A o \in Orders :
                   Tasks(o) \ completed'[o] # {} =>
                       hist'.report[o] = <<"Not Finished">>
      ]_vars

\* the run has ended with one order finished, a task of another order in
\* progress, and a completion, an arrival and a round waiting at times
\* that are not before until, one of them exactly at until
C32_Witness ==
    /\ hist.ev = "end"
    /\ \E s \in Stations :
          /\ pc[s] = "busy"
          /\ \E i \in 1..Len(evq) :
                evq[i].kind = "done" /\ evq[i].arg = s /\ evq[i].time >= cfg.until
    /\ \E i \in 1..Len(evq) : evq[i].kind = "gen" /\ evq[i].time = cfg.until
    /\ \E i \in 1..Len(evq) : evq[i].kind = "tick" /\ evq[i].time = cfg.until
    /\ \E o \in Orders : finish[o] # 0
    /\ \E o \in Orders : completed[o] # {} /\ Tasks(o) \ completed[o] # {}

\* C33 (continuous release only feeds starved stations): whenever
\* continuous_release releases an order to a station, the queue of that
\* station is empty at the call.
C33_OnlyStarvedStations ==
    \A c \in Calls : c.released # 0 => c.before[c.s].queue = << >>

Starved(s) ==
    /\ idle[s] /\ queue[s] = << >>
    /\ \E i \in 1..Len(pool) : \E j \in 1..Len(ready[pool[i]]) :
          Plan(pool[i])[ready[pool[i]][j]].station = station_list[s].type_id

\* C35 (no starved station next to matching work): when time advances no
\* station is idle with an empty queue while the pool holds an order with a
\* ready task of the station's type.
C35_NoStarvedStation ==
    [][(now' > now /\ failed' = "none") => \A s \in Stations : ~Starved(s)]_vars

\* time is about to advance while a station is idle with an empty queue
\* and the pool holds an order, rejected by a round before, with no ready
\* task of that station's type
C35_Witness ==
    /\ failed = "none" /\ evq # << >>
    /\ Head(evq).time > now /\ Head(evq).time < cfg.until
    /\ \E s \in Stations : idle[s] /\ queue[s] = << >> /\ pc[s] = "idle_wait"
    /\ \E i \in 1..Len(pool) : hist.rejected[pool[i]] > 0
    /\ \E o \in Orders : \E p \in Orders :
          o # p /\ orders[o].arrival_time = orders[p].arrival_time
                /\ hist.pooled[o] > 0 /\ hist.pooled[p] > 0

\* every order was released and has finished, and every station is idle
AllDone ==
    /\ \A o \in Orders : hist.released[o] > 0 /\ finish[o] # 0
    /\ \A s \in Stations : idle[s] /\ queue[s] = << >>

\* the run has stopped: env.run returned and the finalization ran, or an
\* exception ended it
Halted == failed # "none" \/ hist.ev = "end"

\* C36 (eventual completion): a run that is not cut off, of a finite order
\* stream whose tasks all have a station of their type and a positive
\* process time, stops only after every order was released and finished,
\* with all stations idle.
C36_EventualCompletion == Halted => AllDone

\* a run that no exception ended completed every order
C36_CompleteUnlessAborted == hist.ev = "end" => AllDone

\* C37 (no negative load): no reachable sequence of arrivals, rounds,
\* continuous releases and completions makes add_task or the completion
\* callback raise its negative-load error, and no station's indirect
\* load is ever below zero, for any number of instances per type.
C37_NoNegativeLoad ==
    /\ failed \notin {"ValueError: indirect load <0", "ValueError: negative load"}
    /\ \A s \in Stations : indirect[s] >= 0

\* a completion whose callback took the load of a child task out of a
\* station that carried nothing else, and whose add_task of that child left
\* the station at exactly zero, in a shop with two stations of one type
C37_Witness ==
    /\ failed = "none"
    /\ \E s \in Stations : \E t \in Stations :
          s # t /\ station_list[s].type_id = station_list[t].type_id
    /\ \E u \in Updates : \E c \in Tasks(u.o) :
          /\ Plan(u.o)[c].parent = u.k
          /\ u.indirect_before[u.assigned[u.o][c]] * u.depth_before[u.o][c]
                = LoadScale * Plan(u.o)[c].process_time
          /\ hist.enq[u.o][c] = 1
          /\ indirect[u.assigned[u.o][c]] = 0

\* every station type of the shop has exactly one workstation
OneInstancePerType ==
    \A s \in Stations : \A t \in Stations :
        station_list[s].type_id = station_list[t].type_id => s = t

\* the tasks of released orders that are assigned to s, not completed and in
\* no queue
Waiting(s) ==
    {ok \in UNION {{<<o, k>> : k \in Tasks(o)} : o \in Orders} :
        /\ Released(ok[1])
        /\ assigned[ok[1]][ok[2]] = s
        /\ ok[2] \notin completed[ok[1]]
        /\ ~Queued(ok[1], ok[2])}

\* C38 (conservation with one instance per type): in a shop with exactly
\* one workstation per type, after every event each station's indirect_load
\* is the sum of process_time/depth over the tasks of released orders that
\* are assigned to it, not completed and not queued, however often an order
\* was rejected and routed again before its release.
C38_ConservationOneInstance ==
    (Running /\ OneInstancePerType) =>
        \A s \in Stations : indirect[s] = SumCorrected(Waiting(s))

\* an order that two rounds rejected was released and a task of it waits
\* for its predecessor, carried as indirect load by its station
C38_Witness ==
    /\ Running /\ OneInstancePerType
    /\ \E o \in Orders : \E s \in Stations :
          /\ hist.rejected[o] >= 2 /\ Released(o)
          /\ \E k \in Tasks(o) : <<o, k>> \in Waiting(s)
          /\ indirect[s] > 0

\* the 'Task Complete' entries of task k of order o in a step's log
Completions(log, o, k) ==
    {i \in 1..Len(log) : log[i].type = "Task Complete" /\ log[i].o = o /\ log[i].k = k}

\* the places of the pair (o, k) in the queues of the stations
Places(q, o, k) ==
    {si \in UNION {{<<s, i>> : i \in 1..Len(q[s])} : s \in Stations} :
        q[si[1]][si[2]] = <<o, k>>}

\* C39 (each task is handled once): after every step every task was added
\* to a queue at most once and started at most once, a step completes a
\* task at most once and never a task that was completed before, no pair
\* (order, task) stands at two places of the queues, and a completed task
\* is in no queue and is not enqueued again.
C39_HandledOnce ==
    [][\A o \in Orders : \A k \in Tasks(o) :
          /\ hist'.enq[o][k] <= 1
          /\ hist'.started[o][k] <= 1
          /\ Cardinality(Completions(hist'.log, o, k)) <= 1
          /\ k \in completed[o] =>
                /\ Completions(hist'.log, o, k) = {}
                /\ hist'.enq[o][k] = hist.enq[o][k]
                /\ hist'.started[o][k] = hist.started[o][k]
          /\ Cardinality(Places(queue', o, k)) <= 1
          /\ k \in completed'[o] => Places(queue', o, k) = {}]_vars

\* a run ended with every task of every order added, started and completed,
\* one of the orders having been rejected by a round before its release
C39_Witness ==
    /\ hist.ev = "end"
    /\ \E o \in Orders : hist.rejected[o] > 0
    /\ \A o \in Orders : \A k \in Tasks(o) :
          hist.enq[o][k] = 1 /\ hist.started[o][k] = 1 /\ k \in completed[o]

\* every released order has all its tasks completed
Drained == \A o \in Orders : Released(o) => Tasks(o) \subseteq completed[o]

\* C40 (a drained shop carries no load): whenever every released order has
\* all its tasks completed, every station has an empty queue and an
\* indirect_load of zero, for any number of instances per type and however
\* often orders were routed again before their release.
C40_DrainedShopNoLoad ==
    (Running /\ Drained) =>
        \A s \in Stations : queue[s] = << >> /\ indirect[s] = 0

\* the same, for shops with one workstation per type
C40_DrainedOneInstance ==
    (Running /\ Drained /\ OneInstancePerType) =>
        \A s \in Stations : queue[s] = << >> /\ indirect[s] = 0
====
